---- MODULE Spec2Model ----
(***************************************************************************)
(* Model of lib/cloudregister/mcp.py: the region-server client plugin.     *)
(* One invocation of generateRegionSrvArgs() is modelled as a sequential   *)
(* process; the configuration file on disk and the outcome of every HTTPS  *)
(* request are chosen by the environment.                                  *)
(*                                                                         *)
(* Strings are sequences of one-character strings; Python's 0-based        *)
(* indices are kept (x, i) and translated where a sequence is accessed.    *)
(***************************************************************************)
EXTENDS Integers, Sequences, FiniteSets

VARIABLES
    cfgFile,    \* what is on disk at the configuration path
    fileCfg,    \* the sections/options the file holds when it parses
    cfg,        \* generateRegionSrvArgs: cfg (NoCfg until get_config returns)
    pc,         \* position of the invocation
    api,        \* determine_closest_region: api
    servers,    \* determine_closest_region: servers
    x,          \* determine_closest_region: loop index
    results,    \* determine_closest_region: results
    i,          \* determine_closest_region: i (-1 while unassigned)
    geo,        \* geo (of determine_closest_region, then of the caller)
    ret,        \* value returned by generateRegionSrvArgs
    exc,        \* exception that left generateRegionSrvArgs ("none" if none)
    exitStatus, \* status passed to sys.exit (-1 while the process runs)
    called,     \* history: determine_closest_region was entered
    probes      \* history: one record per requests.get issued, in order

vars == <<cfgFile, fileCfg, cfg, pc, api, servers, x, results, i, geo, ret,
          exc, exitStatus, called, probes>>

----------------------------------------------------------------------------
(* Bounds of the model *)

\* longest value of server.regionsrv, in characters
MaxLen == 5

\* largest elapsed duration a request reports (in ticks, 1..MaxElapsed)
MaxElapsed == 2

\* characters a server.regionsrv value is built from
Alphabet == {"r", "g", "n", "d", " ", ","}

\* values of instance.region that are tried
RegionValues == {<<"u", "s">>, <<>>}

\* values of server.api that are tried
ApiValues == {<<"a", "p", "i">>}

----------------------------------------------------------------------------
(* Python string and list primitives *)

MinOf(a, b) == IF a < b THEN a ELSE b

\* s[a:b] for 0 <= a <= b
Slice(s, a, b) ==
    IF a >= MinOf(b, Len(s)) THEN <<>>
    ELSE [k \in 1..(MinOf(b, Len(s)) - a) |-> s[a + k]]

\* position of the first "," in s, 0 when there is none
RECURSIVE FirstComma(_, _)
FirstComma(s, k) ==
    IF k > Len(s) THEN 0
    ELSE IF s[k] = "," THEN k
    ELSE FirstComma(s, k + 1)

\* s.split(',')
RECURSIVE Split(_)
Split(s) ==
    LET c == FirstComma(s, 1) IN
    IF c = 0 THEN <<s>>
    ELSE <<Slice(s, 0, c - 1)>> \o Split(Slice(s, c, Len(s)))

\* min(results), results not empty
RECURSIVE ListMin(_)
ListMin(r) ==
    IF Len(r) = 1 THEN r[1]
    ELSE MinOf(r[1], ListMin(Tail(r)))

\* results.index(v): 0-based position of the first element equal to v
RECURSIVE ListIndex(_, _, _)
ListIndex(r, v, k) ==
    IF r[k + 1] = v THEN k ELSE ListIndex(r, v, k + 1)

\* the index line 48 computes
MinIndex(r) == ListIndex(r, ListMin(r), 0)

\* RegionCode with the rgn branch cutting one character early
RegionCodeShifted(h) ==
    IF Slice(h, 0, 3) = <<"r", "g", "n">> THEN Slice(h, 2, 4)
    ELSE Slice(h, 0, 2)

\* lines 52-55: the region code cut from a hostname
RegionCode(h) ==
    IF Slice(h, 0, 3) = <<"r", "g", "n">> THEN Slice(h, 3, 5)
    ELSE Slice(h, 0, 2)

\* ClosestRegion falling back to the first server when nothing was recorded
ClosestRegionFallback(srv, res) ==
    IF res = <<>> THEN RegionCode(srv[1])
    ELSE RegionCode(srv[MinIndex(res) + 1])

\* lines 47-57: the value determine_closest_region returns
ClosestRegion(srv, res) ==
    IF res = <<>> THEN <<>>
    ELSE RegionCode(srv[MinIndex(res) + 1])

\* the literal of line 14
regionHint == <<"r", "e", "g", "i", "o", "n", "H", "i", "n", "t", "=">>

\* line 14
HintString(g) == regionHint \o g

\* line 40: the URL requested
Url(host, path) == <<"h", "t", "t", "p", "s", ":", "/", "/">> \o host \o <<"/">> \o path

----------------------------------------------------------------------------
(* The configuration file *)

NoCfg == [loaded |-> FALSE]

\* configparser strips the whitespace around a value when it parses a line
Stripped(s) == s = <<>> \/ (s[1] /= " " /\ s[Len(s)] /= " ")

Strings == UNION {[1..n -> Alphabet] : n \in 0..MaxLen}

RegionsrvValues == {s \in Strings : Stripped(s)}

\* instance: "nosection" (no [instance] section), "nooption" (a section
\* without the key region) or "set" (region holds the value of field region)
Configs ==
    [loaded : {TRUE}, instance : {"nosection", "nooption"}, region : {<<>>},
     api : ApiValues, regionsrv : RegionsrvValues]
    \cup
    [loaded : {TRUE}, instance : {"set"}, region : RegionValues,
     api : ApiValues, regionsrv : RegionsrvValues]

\* "ok": parses; "missing", "unreadable": open() fails with OSError;
\* "malformed": the parser raises a configparser.Error;
\* "undecodable": decoding the bytes raises UnicodeDecodeError
FileStates == {"ok", "missing", "unreadable", "malformed", "undecodable"}

\* what cfg.read(configFile) does (line 22): RawConfigParser.read skips a
\* file it cannot open and returns the list of files it parsed
ReadOutcome(f) ==
    CASE f = "ok" -> "parsed"
      [] f \in {"missing", "unreadable"} -> "empty"
      [] f = "malformed" -> "ConfigParserError"
      [] f = "undecodable" -> "UnicodeDecodeError"

\* line 26 reads value.message: configparser.Error defines it, the built-in
\* exceptions do not
HasMessage(e) == e = "ConfigParserError"

----------------------------------------------------------------------------
Init ==
    /\ cfgFile \in FileStates
    /\ fileCfg \in (IF cfgFile = "ok" THEN Configs ELSE {NoCfg})
    /\ cfg = NoCfg
    /\ pc = "start"
    /\ api = <<>>
    /\ servers = <<>>
    /\ x = 0
    /\ results = <<>>
    /\ i = -1
    /\ geo = <<>>
    /\ ret = <<>>
    /\ exc = "none"
    /\ exitStatus = -1
    /\ called = FALSE
    /\ probes = <<>>

\* lines 16-31, called from line 8
get_config ==
    /\ pc = "start"
    /\ LET r == ReadOutcome(cfgFile) IN
       CASE r = "parsed" ->
              /\ cfg' = fileCfg
              /\ pc' = "lookup"
              /\ UNCHANGED <<exc, exitStatus>>
         [] r = "empty" ->
              /\ pc' = "exited"
              /\ exitStatus' = 1
              /\ UNCHANGED <<cfg, exc>>
         [] OTHER ->
              IF HasMessage(r)
              THEN /\ pc' = "exited"
                   /\ exitStatus' = 1
                   /\ UNCHANGED <<cfg, exc>>
              ELSE /\ pc' = "raised"
                   /\ exc' = "AttributeError"
                   /\ UNCHANGED <<cfg, exitStatus>>
    /\ UNCHANGED <<cfgFile, fileCfg, api, servers, x, results, i, geo, ret,
                   called, probes>>

\* LookupOutcome taking an empty region value for a missing one
LookupOutcomeEmptyAsMissing(c) ==
    CASE c.instance = "set" /\ c.region /= <<>> -> "value"
      [] c.instance = "set" /\ c.region = <<>> -> "NoOptionError"
      [] c.instance = "nooption" -> "NoOptionError"
      [] c.instance = "nosection" -> "NoSectionError"

\* what cfg.get('instance','region') does (line 10)
LookupOutcome(c) ==
    CASE c.instance = "set" -> "value"
      [] c.instance = "nooption" -> "NoOptionError"
      [] c.instance = "nosection" -> "NoSectionError"

\* lines 9-12
lookup_region ==
    /\ pc = "lookup"
    /\ LET r == LookupOutcome(cfg) IN
       CASE r = "value" ->
              /\ geo' = cfg.region
              /\ pc' = "return"
              /\ UNCHANGED <<exc, called>>
         [] r = "NoOptionError" ->
              /\ called' = TRUE
              /\ pc' = "setup"
              /\ UNCHANGED <<geo, exc>>
         [] OTHER ->
              /\ exc' = r
              /\ pc' = "raised"
              /\ UNCHANGED <<geo, called>>
    /\ UNCHANGED <<cfgFile, fileCfg, cfg, api, servers, x, results, i, ret,
                   exitStatus, probes>>

\* lines 35-37
probe_setup ==
    /\ pc = "setup"
    /\ api' = cfg.api
    /\ servers' = Split(cfg.regionsrv)
    /\ results' = <<>>
    /\ x' = 0
    /\ pc' = "loop"
    /\ UNCHANGED <<cfgFile, fileCfg, cfg, i, geo, ret, exc, exitStatus,
                   called, probes>>

\* line 40: the request is issued and the call blocks
request_start ==
    /\ pc = "loop"
    /\ x < Len(servers)
    /\ probes' = Append(probes, [srv |-> x, url |-> Url(servers[x + 1], api),
                                 out |-> "pending", elapsed |-> 0])
    /\ pc' = "request"
    /\ UNCHANGED <<cfgFile, fileCfg, cfg, api, servers, x, results, i, geo,
                   ret, exc, exitStatus, called>>

\* the history record of the request in flight, completed: out is "ok" or
\* the exception raised, elapsed is result.elapsed (0 when there is none)
Completed(o, e) ==
    [probes EXCEPT ![Len(probes)].out = o, ![Len(probes)].elapsed = e]

\* NextIndex stepping over a server
NextIndexSkip(k) == k + 2

\* the index the for loop of line 38 takes next
NextIndex(k) == k + 1

\* requests refuses a URL without a host before it connects (InvalidURL,
\* which is neither a ConnectionError nor an SSLError)
CanConnect(host) == host /= <<>>

\* lines 40-41: the response arrives after e ticks
request_ok(e) ==
    /\ pc = "request"
    /\ CanConnect(servers[x + 1])
    /\ results' = Append(results, e)
    /\ probes' = Completed("ok", e)
    /\ x' = NextIndex(x)
    /\ pc' = "loop"
    /\ UNCHANGED <<cfgFile, fileCfg, cfg, api, servers, i, geo, ret, exc,
                   exitStatus, called>>

\* Skip recording a duration for the failed request
SkipRecording(kind) ==
    /\ probes' = Completed(kind, 0)
    /\ results' = Append(results, MaxElapsed)
    /\ x' = NextIndex(x)
    /\ pc' = "loop"
    /\ UNCHANGED exc

\* lines 42-45: a handled exception, the loop goes on
Skip(kind) ==
    /\ probes' = Completed(kind, 0)
    /\ x' = NextIndex(x)
    /\ pc' = "loop"
    /\ UNCHANGED <<results, exc>>

\* Propagate absorbing the exception like the two handled kinds
PropagateAbsorbed(kind) ==
    /\ probes' = Completed(kind, 0)
    /\ x' = NextIndex(x)
    /\ pc' = "loop"
    /\ UNCHANGED <<results, exc>>

\* any other exception leaves determine_closest_region and its caller
Propagate(kind) ==
    /\ probes' = Completed(kind, 0)
    /\ exc' = kind
    /\ pc' = "raised"
    /\ UNCHANGED <<results, x>>

\* lines 42-43
request_connection_error ==
    /\ pc = "request"
    /\ CanConnect(servers[x + 1])
    /\ Skip("ConnectionError")
    /\ UNCHANGED <<cfgFile, fileCfg, cfg, api, servers, i, geo, ret,
                   exitStatus, called>>

\* lines 44-45
request_ssl_error ==
    /\ pc = "request"
    /\ CanConnect(servers[x + 1])
    /\ Skip("SSLError")
    /\ UNCHANGED <<cfgFile, fileCfg, cfg, api, servers, i, geo, ret,
                   exitStatus, called>>

\* line 40 raising anything the two except clauses do not name
request_other_error ==
    /\ pc = "request"
    /\ Propagate("RequestException")
    /\ UNCHANGED <<cfgFile, fileCfg, cfg, api, servers, i, geo, ret,
                   exitStatus, called>>

\* lines 47-57, after the loop
select_region ==
    /\ pc = "loop"
    /\ x >= Len(servers)
    /\ i' = IF results = <<>> THEN i ELSE MinIndex(results)
    /\ geo' = ClosestRegion(servers, results)
    /\ pc' = "return"
    /\ UNCHANGED <<cfgFile, fileCfg, cfg, api, servers, x, results, ret, exc,
                   exitStatus, called, probes>>

\* line 14
return_hint ==
    /\ pc = "return"
    /\ ret' = HintString(geo)
    /\ pc' = "returned"
    /\ UNCHANGED <<cfgFile, fileCfg, cfg, api, servers, x, results, i, geo,
                   exc, exitStatus, called, probes>>

Next ==
    \/ get_config
    \/ lookup_region
    \/ probe_setup
    \/ request_start
    \/ \E e \in 1..MaxElapsed : request_ok(e)
    \/ request_connection_error
    \/ request_ssl_error
    \/ request_other_error
    \/ select_region
    \/ return_hint

Spec == Init /\ [][Next]_vars

----------------------------------------------------------------------------
(* Vocabulary of the properties *)

\* determine_closest_region has returned to its caller
ProbeReturned == called /\ pc \in {"return", "returned"}

\* positions of the history at which a request succeeded
Succeeded == {k \in DOMAIN probes : probes[k].out = "ok"}

\* positions of the history at which a request was skipped
Skipped == {k \in DOMAIN probes : probes[k].out \in {"ConnectionError", "SSLError"}}

\* successful requests that recorded the least duration
Fastest ==
    {k \in Succeeded : \A j \in Succeeded : probes[k].elapsed <= probes[j].elapsed}

\* the hostname the k-th request went to
HostOf(k) == servers[probes[k].srv + 1]

\* the characters of h at the 0-based positions a and a + 1 that exist
TwoFrom(h, a) ==
    (IF Len(h) > a THEN <<h[a + 1]>> ELSE <<>>)
        \o (IF Len(h) > a + 1 THEN <<h[a + 2]>> ELSE <<>>)

HasRgnPrefix(h) == Len(h) >= 3 /\ h[1] = "r" /\ h[2] = "g" /\ h[3] = "n"

\* the list joined with commas again
RECURSIVE Joined(_)
Joined(l) ==
    IF Len(l) = 1 THEN l[1]
    ELSE l[1] \o <<",">> \o Joined(Tail(l))

\* g is a run of consecutive characters of h
CutFrom(g, h) ==
    \E a \in 0..Len(h) :
        /\ a + Len(g) <= Len(h)
        /\ \A j \in 1..Len(g) : g[j] = h[a + j]

----------------------------------------------------------------------------
(* The claims *)

\* C1: when at least one request succeeded, determine_closest_region returns
\* the region code of a server whose request succeeded with the least
\* recorded duration; a skipped server never determines the code.
C1_ClosestServer ==
    (ProbeReturned /\ Succeeded /= {}) =>
        \E k \in Fastest : geo = RegionCode(HostOf(k))

\* C2: with instance.region in the configuration the invocation returns
\* "regionHint=" followed by exactly that value and issues no request,
\* whatever server.regionsrv and server.api hold.
C2_RegionOverride ==
    (cfg /= NoCfg /\ cfg.instance = "set") =>
        /\ probes = <<>>
        /\ ~called
        /\ pc \in {"lookup", "return", "returned"}
        /\ pc = "returned" => ret = regionHint \o cfg.region

C2_Witness ==
    /\ pc = "returned"
    /\ cfg.instance = "set"
    /\ cfg.region = <<"u", "s">>
    /\ cfg.regionsrv = <<"r", "g", "n", "d", "d">>
    /\ ret = regionHint \o <<"u", "s">>

\* C3: without an instance.region value (key absent, or the whole [instance]
\* section absent) generateRegionSrvArgs delegates to the closest-region
\* probe and returns "regionHint=" plus its result, rather than failing.
C3_DelegatesWithoutRegion ==
    (cfg /= NoCfg /\ cfg.instance /= "set" /\ pc /= "lookup") =>
        /\ called
        /\ exc \notin {"NoSectionError", "NoOptionError"}
        /\ pc = "returned" => ret = regionHint \o geo

\* C4: when two or more servers record the identical least duration, the
\* code returned is the one of the tied server that comes first in the list,
\* also when other servers were skipped.
C4_FirstOfTied ==
    (ProbeReturned /\ Cardinality(Fastest) >= 2) =>
        \E k \in Fastest :
            /\ \A j \in Fastest : k <= j
            /\ geo = RegionCode(HostOf(k))

\* C5: when every server fails with a connection or TLS failure,
\* determine_closest_region returns the empty string without raising and
\* generateRegionSrvArgs returns exactly "regionHint=".
AllSkipped ==
    /\ called
    /\ pc /= "setup"
    /\ Len(probes) = Len(servers)
    /\ Skipped = DOMAIN probes

C5_AllFailGivesEmpty ==
    AllSkipped =>
        /\ pc \in {"loop", "return", "returned"}
        /\ exc = "none"
        /\ pc \in {"return", "returned"} => geo = <<>>
        /\ pc = "returned" => ret = regionHint

C5_Witness ==
    /\ AllSkipped
    /\ pc = "returned"
    /\ Len(servers) >= 2
    /\ \E k \in DOMAIN probes : probes[k].out = "SSLError"
    /\ \E k \in DOMAIN probes : probes[k].out = "ConnectionError"

\* C6: when the configuration file is missing, unreadable or unparsable,
\* get_config ends the process with a non-zero exit status; no configuration
\* object is returned, no request is issued and no region string is returned.
C6_BadConfigExits ==
    (cfgFile /= "ok" /\ pc /= "start") =>
        /\ pc = "exited"
        /\ exitStatus > 0
        /\ cfg = NoCfg
        /\ probes = <<>>
        /\ ret = <<>>

\* C7: the code cut from the selected hostname is the characters at 0-based
\* positions 3 and 4 when its first 3 characters are "rgn", its first 2
\* characters otherwise; hostnames are the pieces between the commas of
\* server.regionsrv, whitespace included.
C7_CodeExtraction ==
    /\ (called /\ pc /= "setup") =>
          /\ Joined(servers) = cfg.regionsrv
          /\ \A k \in DOMAIN servers : \A j \in DOMAIN servers[k] : servers[k][j] /= ","
    /\ (ProbeReturned /\ results /= <<>>) =>
          LET h == servers[i + 1] IN
          geo = IF HasRgnPrefix(h) THEN TwoFrom(h, 3) ELSE TwoFrom(h, 0)

C7_Witness ==
    /\ pc = "returned"
    /\ results /= <<>>
    /\ Len(servers) = 1
    /\ servers[i + 1] = <<"r", "g", "n", " ", "d">>
    /\ geo = <<" ", "d">>

\* C8: in a run where no request raises anything but a connection or TLS
\* failure, every entry of the split list is requested exactly once, in list
\* order, each request starting only after the previous one has ended; a
\* connection or TLS failure never keeps the remaining servers from being
\* requested.
C8_EveryServerOnceInOrder ==
    /\ \A k \in DOMAIN probes :
          /\ probes[k].srv = k - 1
          /\ probes[k].url = Url(servers[k], api)
          /\ probes[k].out = "pending" => k = Len(probes)
    /\ (called /\ Succeeded \cup Skipped = DOMAIN probes) =>
          /\ pc \in {"setup", "loop", "return", "returned"}
          /\ pc \in {"return", "returned"} =>
                Len(probes) =
                    Cardinality({j \in DOMAIN cfg.regionsrv : cfg.regionsrv[j] = ","}) + 1

C8_Witness ==
    /\ pc = "returned"
    /\ Len(probes) = 3
    /\ probes[1].out = "ConnectionError"
    /\ probes[2].out = "SSLError"
    /\ probes[3].out = "ok"
    /\ servers[1] = servers[3]

\* C9: an error other than a connection or TLS failure is not absorbed: the
\* probe fails with it, no later server is requested and no region string is
\* returned, even if earlier servers had recorded a duration.
C9_OtherErrorPropagates ==
    \A k \in DOMAIN probes :
        probes[k].out = "RequestException" =>
            /\ k = Len(probes)
            /\ pc = "raised"
            /\ exc = "RequestException"
            /\ ret = <<>>

C9_Witness ==
    /\ pc = "raised"
    /\ exc = "RequestException"
    /\ results /= <<>>
    /\ Len(probes) < Len(servers)

\* C10: the recorded durations never outnumber the servers and are as many
\* as the requests that succeeded; the index selected is a position of the
\* server list; the value returned is empty or at most 2 characters cut from
\* one of the configured hostnames.
C10_SelectionInRange ==
    /\ Len(results) <= Len(servers)
    /\ Len(results) = Cardinality(Succeeded)
    /\ (ProbeReturned /\ results /= <<>>) => i \in 0..(Len(servers) - 1)
    /\ ProbeReturned =>
          \/ geo = <<>>
          \/ /\ Len(geo) <= 2
             /\ \E k \in DOMAIN servers : CutFrom(geo, servers[k])

C10_Witness ==
    /\ pc = "returned"
    /\ called
    /\ Len(servers) = 3
    /\ Len(results) = 2
    /\ probes[1].out = "ConnectionError"
    /\ i = 1
    /\ Len(geo) = 1

====
